---- MODULE Spec2Model ----
(***************************************************************************)
(* pygame_funny_simulations: the frame loops of ColorfulFlooding,          *)
(* WreckingBall, ReboundCollisions, PizzaRain, SandClock, SolarSystem and  *)
(* ShootingStar.                                                           *)
(*                                                                         *)
(* Every program is one object driven by the same synchronous loop         *)
(*     while running: process_events; run_logic; draw; clock_tick          *)
(* A run is the run of one program; the objects of the other programs     *)
(* stay at the value "None" (not constructed).  The first four programs   *)
(* have a specification each, the last three share one.                   *)
(*                                                                         *)
(* The physics engine (pymunk) is outside the repository.  Space.step is   *)
(* modelled by what it guarantees to the program: kinematic bodies advance *)
(* by velocity * dt, dynamic bodies move by a bounded, nondeterministic    *)
(* displacement (gravity, contacts), bodies never cross a static segment   *)
(* that is in the space.  Space.remove asserts membership, as pymunk does. *)
(***************************************************************************)
EXTENDS Integers, Sequences, FiniteSets, TLC

VARIABLES
    program,            \* the module that runs as __main__
    pc,                 \* position of the __main__ loop
    running,            \* the local 'running' of the __main__ loop
    event_queue,        \* pygame's event queue, emptied by pygame.event.get()
    quit_seen,          \* history: a QUIT event has been processed
    unhandled,          \* history: the last batch had events left unhandled
    colorful_flooding,  \* the ColorfulFlooding object
    wrecking_ball,      \* the WreckingBall object
    rebound_collisions, \* the ReboundCollisions object
    pizza_rain,         \* the PizzaRain object
    sand_clock,         \* the SandClock object
    solar_system,       \* the SolarSystem object
    shooting_star       \* the ShootingStar object

vars == <<program, pc, running, event_queue, quit_seen, unhandled,
          colorful_flooding, wrecking_ball, rebound_collisions, pizza_rain,
          sand_clock, solar_system, shooting_star>>

(***************************************************************************)
(* Bounds of the model                                                     *)
(***************************************************************************)
\* longest batch one pygame.event.get() returns
MaxBatch == 2

\* longest batch of PizzaRain, whose process_events tells six events apart
MaxKeys == 1

\* largest distance (pixels) a dynamic body travels in one Space.step
MaxFall == 2

\* most Ball objects ColorfulFlooding creates
MaxBalls == 2

\* most run_logic calls of ColorfulFlooding counted by 'counter'
MaxCounter == 8

\* largest sideways distance (pixels) a contact pushes a body in one step
MaxDrift == 1

\* most SmallBall objects WreckingBall creates
MaxSmallBalls == 3

\* most Circle objects ReboundCollisions creates
MaxCircles == 2

\* largest vertical_speed the DOWN key is followed to
MaxSpeed == 5

\* largest rotation_every the LEFT key is followed to
MaxRotation == 3

\* space.step(1/60): positions of bodies with a set velocity are kept in
\* sixtieths of a pixel, so that velocity * dt is exact
StepsPerSecond == 60

(***************************************************************************)
(* Python helpers                                                          *)
(***************************************************************************)
Min(a, b) == IF a < b THEN a ELSE b

Max(a, b) == IF a > b THEN a ELSE b

\* Python's floor division a // b for b > 0
FloorDiv(a, b) == IF a >= 0 THEN a \div b ELSE -((-a + b - 1) \div b)

\* list.remove(x): drops the first element equal to x
RECURSIVE ListRemove(_, _)
ListRemove(list, x) ==
    IF list = <<>> THEN <<>>
    ELSE IF Head(list) = x THEN Tail(list)
    ELSE <<Head(list)>> \o ListRemove(Tail(list), x)

\* faulty variant: the loop goes through the whole batch and handles the
\* events that follow a QUIT as well
RECURSIVE HandledAfterQuit(_)
HandledAfterQuit(events) ==
    IF events = <<>> THEN <<>>
    ELSE IF Head(events) = "QUIT" THEN HandledAfterQuit(Tail(events))
    ELSE <<Head(events)>> \o HandledAfterQuit(Tail(events))

\* events of a batch up to, and without, the first QUIT: the ones a
\* process_events loop handles before 'return False'
RECURSIVE Handled(_)
Handled(events) ==
    IF events = <<>> \/ Head(events) = "QUIT" THEN <<>>
    ELSE <<Head(events)>> \o Handled(Tail(events))

HasQuit(events) == \E i \in 1..Len(events) : events[i] = "QUIT"

\* events of a batch that follow the first QUIT: pygame.event.get() has taken
\* them off the queue and 'return False' leaves the loop before them
RECURSIVE Unhandled(_)
Unhandled(events) ==
    IF events = <<>> THEN <<>>
    ELSE IF Head(events) = "QUIT" THEN Tail(events)
    ELSE Unhandled(Tail(events))

(***************************************************************************)
(* pymunk.Space as the set of objects added to it.  An object is           *)
(* <<kind, id>>.                                                            *)
(***************************************************************************)
BodyOf(id) == <<"body", id>>

ShapeOf(id) == <<"shape", id>>

\* Space.remove(*objs): one object after the other, each asserted to be in
\* the space; the AssertionError leaves the earlier removals done.
RECURSIVE SpaceRemove(_, _)
SpaceRemove(space, objs) ==
    IF objs = <<>> THEN [space |-> space, raised |-> "None"]
    ELSE IF Head(objs) \notin space
         THEN [space |-> space, raised |-> "AssertionError"]
         ELSE SpaceRemove(space \ {Head(objs)}, Tail(objs))

(***************************************************************************)
(* The __main__ loop, common to the programs                               *)
(***************************************************************************)
\* the user or the window system posts an event.  The queue is read only by
\* pygame.event.get() in process_events, so the events that arrive during a
\* frame are posted right before that call.
PostEvent(kinds, longest) ==
    /\ pc = "process_events"
    /\ Len(event_queue) < longest
    /\ \E e \in kinds : event_queue' = Append(event_queue, e)
    /\ UNCHANGED <<pc, running, quit_seen, unhandled>>

Draw ==
    /\ pc = "draw"
    /\ pc' = "clock_tick"
    /\ UNCHANGED <<running, event_queue, quit_seen, unhandled>>

\* clock_tick, then the test of 'while running'
ClockTick ==
    /\ pc = "clock_tick"
    /\ pc' = IF running THEN "process_events" ELSE "done"
    /\ UNCHANGED <<running, event_queue, quit_seen, unhandled>>

(***************************************************************************)
(* ColorfulFlooding                                                        *)
(***************************************************************************)
\* config.yml of colorful_flooding
cf_screen_height == 4

cf_radius == 2

cf_create_balls_every == 2

cf_n_sources == 2

cf_sources_y == cf_screen_height \div 5

\* the ids of the static objects of the space
cf_screen_bottom == <<BodyOf(-1), ShapeOf(-1)>>

cf_screen_limits == {BodyOf(-2), ShapeOf(-2), BodyOf(-3), ShapeOf(-3),
                     BodyOf(-4), ShapeOf(-4)}

CFEvents == {"QUIT", "K_SPACE", "KEYUP"}

\* Ball.is_out_of_the_screen
is_out_of_the_screen(ball, screen_height) ==
    ball.y - cf_radius \div 2 > screen_height

\* Space.step on one ball: it falls by minFall..MaxFall pixels; while the
\* bottom segment is in the space it does not get below it.
CFBallOutcomes(ball, space, minFall) ==
    IF cf_screen_bottom[2] \in space
    THEN {[ball EXCEPT !.y = Min(ball.y + d, Max(ball.y, cf_screen_height - cf_radius))] :
             d \in 0..MaxFall}
    ELSE {[ball EXCEPT !.y = ball.y + d] : d \in minFall..MaxFall}

\* Space.step on the balls of the list
RECURSIVE CFStepOutcomes(_, _, _)
CFStepOutcomes(balls, space, minFall) ==
    IF balls = <<>> THEN {<<>>}
    ELSE {<<b>> \o rest : b \in CFBallOutcomes(Head(balls), space, minFall),
                          rest \in CFStepOutcomes(Tail(balls), space, minFall)}

\* faulty variant: the creation does not look at the flag
CFCreateNowAnyway(self, counter) == counter = cf_create_balls_every

\* the guard of the ball creation in run_logic
CFCreateNow(self, counter) ==
    ~self.remove_screen_bottom /\ counter = cf_create_balls_every

\* one new Ball per source, appended and added to the space
RECURSIVE CFCreateBalls(_, _)
CFCreateBalls(self, k) ==
    IF k = 0 THEN self
    ELSE LET id == self.n_created + 1
         IN  CFCreateBalls(
                 [self EXCEPT
                     !.balls_list = Append(@, [id |-> id, y |-> cf_sources_y]),
                     !.space = @ \cup {BodyOf(id), ShapeOf(id)},
                     !.n_created = id],
                 k - 1)

\* faulty variant: no try/except around the removal
CFRemoveBottomUncaught(self) ==
    LET r == SpaceRemove(self.space, cf_screen_bottom)
    IN  [self EXCEPT !.space = r.space, !.raised = r.raised]

\* try: space.remove(*_screen_bottom)  except AssertionError: pass
CFRemoveBottom(self) ==
    LET r == SpaceRemove(self.space, cf_screen_bottom)
    IN  IF r.raised = "AssertionError"
        THEN [self EXCEPT !.space = r.space, !.caught = TRUE]
        ELSE [self EXCEPT !.space = r.space]

\* for ball in balls_list: if out of the screen: remove it from the list and
\* from the space.  The list iterator holds an index i into the list that
\* the body shortens.
RECURSIVE CFRemoveLoop(_, _)
CFRemoveLoop(self, i) ==
    IF i > Len(self.balls_list) \/ self.raised # "None" THEN self
    ELSE LET ball == self.balls_list[i]
         IN  IF is_out_of_the_screen(ball, cf_screen_height)
             THEN LET r == SpaceRemove(self.space,
                                       <<BodyOf(ball.id), ShapeOf(ball.id)>>)
                  IN  CFRemoveLoop(
                          [self EXCEPT
                              !.balls_list = ListRemove(@, ball),
                              !.space = r.space,
                              !.raised = r.raised],
                          i + 1)
             ELSE CFRemoveLoop(self, i + 1)

\* ColorfulFlooding.run_logic after space.step
CFLogic(self) ==
    LET counted == [self EXCEPT !.counter = @ + 1, !.caught = FALSE]
        created == IF CFCreateNow(counted, counted.counter)
                   THEN CFCreateBalls([counted EXCEPT !.counter = 0],
                                      cf_n_sources)
                   ELSE counted
        bottom  == IF created.remove_screen_bottom
                   THEN CFRemoveBottom(created)
                   ELSE created
    IN  IF bottom.raised # "None" THEN bottom ELSE CFRemoveLoop(bottom, 1)

\* ColorfulFlooding.process_events on one batch of events
RECURSIVE CFHandle(_, _)
CFHandle(self, events) ==
    IF events = <<>> THEN self
    ELSE CFHandle(IF Head(events) = "K_SPACE"
                  THEN [self EXCEPT !.remove_screen_bottom = TRUE]
                  ELSE self,
                  Tail(events))

\* faulty variant: the loop ends as soon as the flag is set
CFGoOnUntilSpace(self) == ~self.remove_screen_bottom

\* the value process_events returns without a QUIT, as 'while' reads it
CFGoOn(self) == ~self.remove_screen_bottom \/ self.balls_list # <<>>

CFInitObject ==
    [balls_list |-> <<>>,
     counter |-> 0,
     remove_screen_bottom |-> FALSE,
     space |-> {cf_screen_bottom[1], cf_screen_bottom[2]} \cup cf_screen_limits,
     n_created |-> 0,
     caught |-> FALSE,
     raised |-> "None"]

CFInit ==
    /\ program = "colorful_flooding"
    /\ pc = "process_events"
    /\ running = TRUE
    /\ event_queue = <<>>
    /\ quit_seen = FALSE
    /\ unhandled = FALSE
    /\ sand_clock = "None"
    /\ solar_system = "None"
    /\ shooting_star = "None"
    /\ colorful_flooding = CFInitObject
    /\ wrecking_ball = "None"
    /\ rebound_collisions = "None"
    /\ pizza_rain = "None"

CFOthers ==
    UNCHANGED <<program, wrecking_ball, rebound_collisions, pizza_rain,
                sand_clock, solar_system, shooting_star>>

CFPostEvent == PostEvent(CFEvents, MaxBatch) /\ UNCHANGED colorful_flooding /\ CFOthers

CFProcessEvents ==
    /\ pc = "process_events"
    /\ colorful_flooding' = CFHandle(colorful_flooding, Handled(event_queue))
    /\ running' = (~HasQuit(event_queue) /\ CFGoOn(colorful_flooding'))
    /\ quit_seen' = (quit_seen \/ HasQuit(event_queue))
    /\ unhandled' = (Unhandled(event_queue) # <<>>)
    /\ event_queue' = <<>>
    /\ pc' = "run_logic"
    /\ CFOthers

CFRunLogic(minFall) ==
    /\ pc = "run_logic"
    /\ \E bs \in CFStepOutcomes(colorful_flooding.balls_list,
                                colorful_flooding.space, minFall) :
         LET after == CFLogic([colorful_flooding EXCEPT !.balls_list = bs])
         IN  /\ after.n_created <= MaxBalls
             /\ colorful_flooding' = after
             /\ pc' = IF after.raised = "None" THEN "draw" ELSE "crashed"
    /\ UNCHANGED <<running, event_queue, quit_seen, unhandled>>
    /\ CFOthers

CFDraw == Draw /\ UNCHANGED colorful_flooding /\ CFOthers

CFClockTick == ClockTick /\ UNCHANGED colorful_flooding /\ CFOthers

\* the balls may rest on each other at any time; 'counter' is capped
CFRunLogicCapped ==
    /\ colorful_flooding.counter < MaxCounter
    /\ CFRunLogic(0)

CFNext ==
    \/ CFPostEvent
    \/ CFProcessEvents
    \/ CFRunLogicCapped
    \/ CFDraw
    \/ CFClockTick

SpecCF == CFInit /\ [][CFNext]_vars

\* the frame loop when every ball falls in every step once the bottom segment
\* is gone
CFLoopFalling ==
    \/ CFProcessEvents
    \/ CFRunLogic(1)
    \/ CFDraw
    \/ CFClockTick

CFNextFalling == CFPostEvent \/ CFLoopFalling

\* the loop is a plain 'while': it takes its next step whenever it has one
SpecCFLive == CFInit /\ [][CFNextFalling]_vars /\ WF_vars(CFLoopFalling)

(***************************************************************************)
(* Claims on ColorfulFlooding                                              *)
(***************************************************************************)
CFBallIds(self) == {self.balls_list[i].id : i \in 1..Len(self.balls_list)}

CFBottomInSpace(self) ==
    cf_screen_bottom[1] \in self.space \/ cf_screen_bottom[2] \in self.space

CFSomeBallOut(self) ==
    \E i \in 1..Len(self.balls_list) :
        is_out_of_the_screen(self.balls_list[i], cf_screen_height)

\* C1: once a Space KEYDOWN has been processed (the flag is set), the flag
\* stays set and no step adds a ball to balls_list or an object to the space,
\* whatever the counter is.
C1_NoBallAfterSpace ==
    [][colorful_flooding.remove_screen_bottom =>
          /\ colorful_flooding'.remove_screen_bottom
          /\ CFBallIds(colorful_flooding') \subseteq CFBallIds(colorful_flooding)
          /\ Len(colorful_flooding'.balls_list) <= Len(colorful_flooding.balls_list)
          /\ colorful_flooding'.space \subseteq colorful_flooding.space
          /\ colorful_flooding'.n_created = colorful_flooding.n_created]_vars

\* C1 witness: with the flag set, a run_logic has brought the counter to
\* create_balls_every and returned
C1_Witness ==
    /\ pc = "draw"
    /\ colorful_flooding.remove_screen_bottom
    /\ colorful_flooding.counter = cf_create_balls_every
    /\ colorful_flooding.balls_list # <<>>

\* C2: after Space, with every ball falling until it is out of the screen
\* (a run a QUIT cuts short does not let them), balls_list becomes empty and
\* the loop ends; without a QUIT the loop ends only with the flag set and
\* balls_list empty.
C2_EndsWhenEmpty ==
    /\ colorful_flooding.remove_screen_bottom ~>
          (quit_seen \/ (colorful_flooding.balls_list = <<>> /\ pc = "done"))
    /\ [](pc = "done" /\ ~quit_seen =>
            /\ colorful_flooding.remove_screen_bottom
            /\ colorful_flooding.balls_list = <<>>)
    /\ [](~quit_seen /\ ~running =>
            /\ colorful_flooding.remove_screen_bottom
            /\ colorful_flooding.balls_list = <<>>)

\* C2 witness: the loop has ended without a QUIT after balls were created
C2_Witness ==
    /\ pc = "done"
    /\ ~quit_seen
    /\ colorful_flooding.n_created > 0
    /\ colorful_flooding.balls_list = <<>>

\* C3: the bottom segment leaves the space exactly once, in the first
\* run_logic after Space; every later run_logic catches the AssertionError of
\* the repeated removal, returns normally, leaves the other static objects
\* and the balls of the list in the space, and still removes balls that are
\* out of the screen.
C3_BottomRemovedOnce ==
    /\ [](~colorful_flooding.remove_screen_bottom =>
            /\ cf_screen_bottom[1] \in colorful_flooding.space
            /\ cf_screen_bottom[2] \in colorful_flooding.space)
    /\ [](pc # "crashed" /\ colorful_flooding.raised = "None")
    /\ [][/\ (CFBottomInSpace(colorful_flooding) /\ ~CFBottomInSpace(colorful_flooding')
               => pc = "run_logic" /\ colorful_flooding.remove_screen_bottom
                  /\ ~colorful_flooding'.caught)
          /\ (pc = "run_logic" /\ colorful_flooding.remove_screen_bottom /\ pc' # pc
               => ~CFBottomInSpace(colorful_flooding'))
          /\ (~CFBottomInSpace(colorful_flooding)
               => ~CFBottomInSpace(colorful_flooding'))
          /\ (pc = "run_logic" /\ ~CFBottomInSpace(colorful_flooding) /\ pc' # pc
               => /\ pc' = "draw"
                  /\ colorful_flooding'.caught
                  /\ cf_screen_limits \subseteq colorful_flooding'.space
                  /\ colorful_flooding'.space \ cf_screen_limits =
                        UNION {{BodyOf(id), ShapeOf(id)} :
                                  id \in CFBallIds(colorful_flooding')}
                  /\ \A i \in 1..Len(colorful_flooding.balls_list) :
                        LET ball == colorful_flooding.balls_list[i]
                        IN  ball.id \notin CFBallIds(colorful_flooding') =>
                              is_out_of_the_screen(
                                  [ball EXCEPT !.y = @ + MaxFall], cf_screen_height)
                  /\ (Len(colorful_flooding'.balls_list)
                          = Len(colorful_flooding.balls_list)
                      => ~CFSomeBallOut(colorful_flooding')))]_vars

\* C3 witness: a repeated removal has failed and been caught in a run_logic
\* that removed the last ball
C3_Witness ==
    /\ pc = "draw"
    /\ colorful_flooding.caught
    /\ ~CFBottomInSpace(colorful_flooding)
    /\ colorful_flooding.n_created > 0
    /\ colorful_flooding.balls_list = <<>>

\* C4: when run_logic has returned, no ball of balls_list is out of the
\* screen.
C4_NoOutBallLeft ==
    pc = "draw" => ~CFSomeBallOut(colorful_flooding)

(***************************************************************************)
(* WreckingBall                                                            *)
(***************************************************************************)
\* config.yml of wrecking_ball
wb_screen_width == 3

wb_screen_height == 3

wb_wrecking_ball_radius == 1

wb_small_ball_radius == 1

wb_min_velocity_x == 60

wb_max_velocity_x == 62

wb_min_velocity_y == 60

wb_max_velocity_y == 62

WBEvents == {"QUIT", "KEYUP"}

\* random.randrange(start, stop) * random.choice((-1, 1))
RandomVelocities(start, stop) ==
    {v * sign : v \in start..(stop - 1), sign \in {-1, 1}}

\* SmallBall.is_out_of_screen
is_out_of_screen(small_ball, screen_width, screen_height) ==
    LET out_lower == small_ball.y - wb_small_ball_radius \div 2 > screen_height
        out_left  == small_ball.x + wb_small_ball_radius \div 2 < 0
        out_right == small_ball.x - wb_small_ball_radius \div 2 > screen_width
    IN  out_lower \/ out_left \/ out_right

\* Space.step on one SmallBall: gravity pulls it down, contacts with the
\* wrecking ball and the other balls push it aside
WBSmallBallOutcomes(small_ball) ==
    {[small_ball EXCEPT !.x = @ + dx, !.y = @ + dy] :
        dx \in (-MaxDrift)..MaxDrift, dy \in 0..MaxFall}

\* Space.step on the small balls of the list
RECURSIVE WBStepOutcomes(_)
WBStepOutcomes(balls) ==
    IF balls = <<>> THEN {<<>>}
    ELSE {<<b>> \o rest : b \in WBSmallBallOutcomes(Head(balls)),
                          rest \in WBStepOutcomes(Tail(balls))}

\* Space.step on the kinematic body: position += velocity * dt
WBStepKinematic(self) ==
    [self EXCEPT !.position = [x |-> @.x + self.velocity.x,
                               y |-> @.y + self.velocity.y]]

\* the two 'if' of run_logic on the velocity of the wrecking ball; both use
\* the vel_x, vel_y read before them
WBBounce(self) ==
    LET vel_x == self.velocity.x
        vel_y == self.velocity.y
        x == self.position.x
        y == self.position.y
        r == StepsPerSecond * wb_wrecking_ball_radius
        first == IF x + r > StepsPerSecond * wb_screen_width \/ x - r < 0
                 THEN [x |-> -vel_x, y |-> vel_y]
                 ELSE self.velocity
    IN  [self EXCEPT !.velocity =
            IF y + r > StepsPerSecond * wb_screen_height \/ y - r < 0
            THEN [x |-> vel_x, y |-> -vel_y]
            ELSE first]

\* a new SmallBall above the screen, appended and added to the space
WBCreateSmallBall(self, center_x) ==
    LET id == self.n_created + 1
    IN  [self EXCEPT
            !.small_balls_list =
                Append(@, [id |-> id, x |-> center_x,
                           y |-> FloorDiv(-wb_screen_height, 4)]),
            !.space = @ \cup {BodyOf(id), ShapeOf(id)},
            !.n_created = id]

\* for small_ball in small_balls_list: if out of screen: remove it from the
\* list and from the space
RECURSIVE WBRemoveLoop(_, _)
WBRemoveLoop(self, i) ==
    IF i > Len(self.small_balls_list) \/ self.raised # "None" THEN self
    ELSE LET small_ball == self.small_balls_list[i]
         IN  IF is_out_of_screen(small_ball, wb_screen_width, wb_screen_height)
             THEN LET r == SpaceRemove(self.space,
                              <<BodyOf(small_ball.id), ShapeOf(small_ball.id)>>)
                  IN  WBRemoveLoop(
                          [self EXCEPT
                              !.small_balls_list = ListRemove(@, small_ball),
                              !.space = r.space,
                              !.raised = r.raised],
                          i + 1)
             ELSE WBRemoveLoop(self, i + 1)

\* WreckingBall.run_logic after space.step
WBLogic(self, center_x) ==
    WBRemoveLoop(WBCreateSmallBall(WBBounce(self), center_x), 1)

WBInitObjects ==
    {[position |-> [x |-> StepsPerSecond * (wb_screen_width \div 2),
                    y |-> StepsPerSecond * (wb_screen_height \div 2)],
      velocity |-> [x |-> velocity_x, y |-> velocity_y],
      small_balls_list |-> <<>>,
      space |-> {BodyOf(0), ShapeOf(0)},
      n_created |-> 0,
      raised |-> "None"] :
        velocity_x \in RandomVelocities(wb_min_velocity_x, wb_max_velocity_x),
        velocity_y \in RandomVelocities(wb_min_velocity_y, wb_max_velocity_y)}

WBInit ==
    /\ program = "wrecking_ball"
    /\ pc = "process_events"
    /\ running = TRUE
    /\ event_queue = <<>>
    /\ quit_seen = FALSE
    /\ unhandled = FALSE
    /\ sand_clock = "None"
    /\ solar_system = "None"
    /\ shooting_star = "None"
    /\ wrecking_ball \in WBInitObjects
    /\ colorful_flooding = "None"
    /\ rebound_collisions = "None"
    /\ pizza_rain = "None"

WBOthers ==
    UNCHANGED <<program, colorful_flooding, rebound_collisions, pizza_rain,
                sand_clock, solar_system, shooting_star>>

WBPostEvent == PostEvent(WBEvents, MaxBatch) /\ UNCHANGED wrecking_ball /\ WBOthers

WBProcessEvents ==
    /\ pc = "process_events"
    /\ running' = ~HasQuit(event_queue)
    /\ quit_seen' = (quit_seen \/ HasQuit(event_queue))
    /\ unhandled' = (Unhandled(event_queue) # <<>>)
    /\ event_queue' = <<>>
    /\ pc' = "run_logic"
    /\ UNCHANGED wrecking_ball
    /\ WBOthers

WBRunLogic ==
    /\ pc = "run_logic"
    /\ wrecking_ball.n_created < MaxSmallBalls
    /\ \E bs \in WBStepOutcomes(wrecking_ball.small_balls_list),
          center_x \in 0..(wb_screen_width - 1) :
         LET stepped == WBStepKinematic(
                            [wrecking_ball EXCEPT !.small_balls_list = bs])
             after == WBLogic(stepped, center_x)
         IN  /\ wrecking_ball' = after
             /\ pc' = IF after.raised = "None" THEN "draw" ELSE "crashed"
    /\ UNCHANGED <<running, event_queue, quit_seen, unhandled>>
    /\ WBOthers

WBDraw == Draw /\ UNCHANGED wrecking_ball /\ WBOthers

WBClockTick == ClockTick /\ UNCHANGED wrecking_ball /\ WBOthers

WBNext ==
    \/ WBPostEvent
    \/ WBProcessEvents
    \/ WBRunLogic
    \/ WBDraw
    \/ WBClockTick

SpecWB == WBInit /\ [][WBNext]_vars

(***************************************************************************)
(* Claims on WreckingBall                                                  *)
(***************************************************************************)
\* the wrecking ball extends beyond a limit of the screen
WBBeyond(limit, position) ==
    LET r == StepsPerSecond * wb_wrecking_ball_radius
    IN  CASE limit = "right"  -> position.x + r > StepsPerSecond * wb_screen_width
          [] limit = "left"   -> position.x - r < 0
          [] limit = "bottom" -> position.y + r > StepsPerSecond * wb_screen_height
          [] limit = "top"    -> position.y - r < 0

\* C5: a wrecking ball that extends beyond a screen limit after one
\* run_logic is back within that limit after the next run_logic.
C5_BackWithinLimit ==
    [][pc = "run_logic" =>
          \A limit \in {"left", "right", "top", "bottom"} :
              WBBeyond(limit, wrecking_ball.position) =>
                  ~WBBeyond(limit, wrecking_ball'.position)]_vars

\* C6: when run_logic has returned, no SmallBall of small_balls_list is out
\* of the screen, and the space holds exactly the balls of the list.
C6_NoOutSmallBallLeft ==
    pc = "draw" =>
        /\ \A i \in 1..Len(wrecking_ball.small_balls_list) :
              ~is_out_of_screen(wrecking_ball.small_balls_list[i],
                                wb_screen_width, wb_screen_height)
        /\ wrecking_ball.space =
              {BodyOf(0), ShapeOf(0)} \cup
              UNION {{BodyOf(wrecking_ball.small_balls_list[i].id),
                      ShapeOf(wrecking_ball.small_balls_list[i].id)} :
                        i \in 1..Len(wrecking_ball.small_balls_list)}

(***************************************************************************)
(* ReboundCollisions                                                       *)
(***************************************************************************)
\* config.yml of rebound_collisions
rc_screen_width == 3

rc_screen_height == 3

rc_min_radius == 1

rc_max_radius == 2

rc_min_velocity_x == 60

rc_max_velocity_x == 61

rc_min_velocity_y == 60

rc_max_velocity_y == 61

RCEvents == {"QUIT", "MOUSEBUTTONDOWN", "KEYUP"}

\* pygame.mouse.get_pos(): a pixel of the window
RCMousePositions ==
    {<<x, y>> : x \in 0..(rc_screen_width - 1), y \in 0..(rc_screen_height - 1)}

\* the number of events of one kind in a sequence of events
RECURSIVE CountOf(_, _)
CountOf(events, kind) ==
    IF events = <<>> THEN 0
    ELSE (IF Head(events) = kind THEN 1 ELSE 0) + CountOf(Tail(events), kind)

\* Circle.update
CircleUpdate(circle, screen_width, screen_height) ==
    LET r == StepsPerSecond * circle.radius
        flip_x == \/ circle.x + r > StepsPerSecond * screen_width
                  \/ circle.x - r < 0
        flip_y == \/ circle.y + r > StepsPerSecond * screen_height
                  \/ circle.y - r < 0
    IN  [circle EXCEPT
            !.velocity_x = IF flip_x THEN -@ ELSE @,
            !.velocity_y = IF flip_y THEN -@ ELSE @]

\* for circle in circle_list: circle.update(...)
RCUpdateAll(circle_list) ==
    [i \in 1..Len(circle_list) |->
        CircleUpdate(circle_list[i], rc_screen_width, rc_screen_height)]

\* the circles a new Circle can be: random radius and velocity
RCNewCircles(center) ==
    {[x |-> StepsPerSecond * center[1],
      y |-> StepsPerSecond * center[2],
      radius |-> random_radius,
      velocity_x |-> random_velocity_x,
      velocity_y |-> random_velocity_y] :
        random_radius \in rc_min_radius..(rc_max_radius - 1),
        random_velocity_x \in RandomVelocities(rc_min_velocity_x, rc_max_velocity_x),
        random_velocity_y \in RandomVelocities(rc_min_velocity_y, rc_max_velocity_y)}

\* two circles of the space collide: they touch and approach each other
RCCollide(a, b) ==
    /\ (a.x - b.x) * (a.x - b.x) + (a.y - b.y) * (a.y - b.y)
          <= StepsPerSecond * StepsPerSecond
               * (a.radius + b.radius) * (a.radius + b.radius)
    /\ (a.x - b.x) * (a.velocity_x - b.velocity_x)
          + (a.y - b.y) * (a.velocity_y - b.velocity_y) < 0

\* Space.step without gravity: every circle advances by velocity * dt; two
\* circles that collide may exchange their velocities (an elastic collision)
RCStepOutcomes(circle_list) ==
    LET moved == [i \in 1..Len(circle_list) |->
                     [circle_list[i] EXCEPT !.x = @ + circle_list[i].velocity_x,
                                            !.y = @ + circle_list[i].velocity_y]]
    IN  {moved} \cup
        {[moved EXCEPT
             ![i] = [@ EXCEPT !.velocity_x = moved[j].velocity_x,
                              !.velocity_y = moved[j].velocity_y],
             ![j] = [@ EXCEPT !.velocity_x = moved[i].velocity_x,
                              !.velocity_y = moved[i].velocity_y]] :
            <<i, j>> \in {p \in (1..Len(moved)) \X (1..Len(moved)) :
                            p[1] < p[2] /\ RCCollide(moved[p[1]], moved[p[2]])}}

RCInitObjects ==
    {[circle_list |-> <<c>>,
      mouse_pos |-> <<>>,
      clicks |-> 0] :
        c \in RCNewCircles(<<rc_screen_width \div 2, rc_screen_height \div 2>>)}

RCInit ==
    /\ program = "rebound_collisions"
    /\ pc = "process_events"
    /\ running = TRUE
    /\ event_queue = <<>>
    /\ quit_seen = FALSE
    /\ unhandled = FALSE
    /\ sand_clock = "None"
    /\ solar_system = "None"
    /\ shooting_star = "None"
    /\ rebound_collisions \in RCInitObjects
    /\ colorful_flooding = "None"
    /\ wrecking_ball = "None"
    /\ pizza_rain = "None"

RCOthers ==
    UNCHANGED <<program, colorful_flooding, wrecking_ball, pizza_rain,
                sand_clock, solar_system, shooting_star>>

RCPostEvent ==
    /\ PostEvent(RCEvents, MaxBatch)
    /\ UNCHANGED rebound_collisions
    /\ RCOthers

\* ReboundCollisions.process_events: every MOUSEBUTTONDOWN it handles stores
\* the position of the mouse at that moment; the last one stays
RCProcessEvents ==
    /\ pc = "process_events"
    /\ LET clicks == CountOf(Handled(event_queue), "MOUSEBUTTONDOWN")
       IN  IF clicks = 0
           THEN UNCHANGED rebound_collisions
           ELSE \E pos \in RCMousePositions :
                    rebound_collisions' =
                        [rebound_collisions EXCEPT !.mouse_pos = pos,
                                                   !.clicks = @ + clicks]
    /\ running' = ~HasQuit(event_queue)
    /\ quit_seen' = (quit_seen \/ HasQuit(event_queue))
    /\ unhandled' = (Unhandled(event_queue) # <<>>)
    /\ event_queue' = <<>>
    /\ pc' = "run_logic"
    /\ RCOthers

RCRunLogic ==
    /\ pc = "run_logic"
    /\ \/ rebound_collisions.mouse_pos = <<>>
       \/ Len(rebound_collisions.circle_list) < MaxCircles
    /\ \E stepped \in RCStepOutcomes(rebound_collisions.circle_list) :
         LET updated == RCUpdateAll(stepped)
         IN  IF rebound_collisions.mouse_pos # <<>>
             THEN \E new_circle \in RCNewCircles(rebound_collisions.mouse_pos) :
                      rebound_collisions' =
                          [rebound_collisions EXCEPT
                              !.circle_list = Append(updated, new_circle),
                              !.mouse_pos = <<>>]
             ELSE rebound_collisions' =
                      [rebound_collisions EXCEPT !.circle_list = updated]
    /\ pc' = "draw"
    /\ UNCHANGED <<running, event_queue, quit_seen, unhandled>>
    /\ RCOthers

RCDraw == Draw /\ UNCHANGED rebound_collisions /\ RCOthers

RCClockTick == ClockTick /\ UNCHANGED rebound_collisions /\ RCOthers

RCNext ==
    \/ RCPostEvent
    \/ RCProcessEvents
    \/ RCRunLogic
    \/ RCDraw
    \/ RCClockTick

SpecRC == RCInit /\ [][RCNext]_vars

(***************************************************************************)
(* Claims on ReboundCollisions                                             *)
(***************************************************************************)
\* the velocity of a circle that extends beyond a limit points back inside
RCPointsInside(circle) ==
    LET r == StepsPerSecond * circle.radius
    IN  /\ circle.x + r > StepsPerSecond * rc_screen_width => circle.velocity_x < 0
        /\ circle.x - r < 0 => circle.velocity_x > 0
        /\ circle.y + r > StepsPerSecond * rc_screen_height => circle.velocity_y < 0
        /\ circle.y - r < 0 => circle.velocity_y > 0

\* C7: in every frame, Circle.update leaves each circle that extends beyond
\* a screen limit with its velocity normal to that limit pointing inside
\* (the circles Circle.update was called on: those of the list before the
\* frame).
C7_VelocityPointsInside ==
    [][pc = "run_logic" =>
          \A i \in 1..Len(rebound_collisions.circle_list) :
              RCPointsInside(rebound_collisions'.circle_list[i])]_vars

\* C8: at the end of every frame circle_list holds the initial circle and
\* one circle per MOUSEBUTTONDOWN processed.
C8_OneCirclePerClick ==
    pc # "run_logic" =>
        Len(rebound_collisions.circle_list) = 1 + rebound_collisions.clicks

(***************************************************************************)
(* PizzaRain                                                               *)
(***************************************************************************)
\* config.yml of pizza_rain
pr_screen_width == 3

pr_screen_height == 3

pr_diameter == 1

pr_number_of_pizzas == 2

pr_vertical_speed == 2

pr_rotation_every == 2

pr_vertical_speed_incr == 2

pr_rotation_every_incr == 2

PREvents == {"QUIT", "K_SPACE", "K_UP", "K_DOWN", "K_LEFT", "K_RIGHT"}

\* an argument that is not given (None) is <<>>, a given value n is <<n>>
None == <<>>

\* faulty variant: a pizza below the screen gets rect.top = 0, not rect.bottom
PizzaUpdateTopAtZero(pizza, vertical_speed_incr, rotation_every_incr) ==
    IF vertical_speed_incr # None
    THEN [pizza EXCEPT !.vertical_speed = Max(1, @ + vertical_speed_incr[1])]
    ELSE IF rotation_every_incr # None
    THEN LET rotation_every ==
                 Max(1, pizza.rotation_every + rotation_every_incr[1])
         IN  [pizza EXCEPT !.rotation_every = rotation_every,
                           !.n_updates = rotation_every - 1]
    ELSE LET y == pizza.y + pizza.vertical_speed
             top == IF y > pr_screen_height THEN 0 ELSE y
             n_updates == pizza.n_updates + 1
         IN  IF n_updates = pizza.rotation_every
             THEN [pizza EXCEPT !.y = top, !.n_updates = 0,
                                !.orientation = (@ + 1) % 4]
             ELSE [pizza EXCEPT !.y = top, !.n_updates = n_updates]

\* faulty variant: the increments are applied without the lower limit
PizzaUpdateUnclamped(pizza, vertical_speed_incr, rotation_every_incr) ==
    IF vertical_speed_incr # None
    THEN [pizza EXCEPT !.vertical_speed = @ + vertical_speed_incr[1]]
    ELSE IF rotation_every_incr # None
    THEN LET rotation_every == pizza.rotation_every + rotation_every_incr[1]
         IN  [pizza EXCEPT !.rotation_every = rotation_every,
                           !.n_updates = rotation_every - 1]
    ELSE pizza

\* Pizza.update
PizzaUpdate(pizza, vertical_speed_incr, rotation_every_incr) ==
    IF vertical_speed_incr # None
    THEN [pizza EXCEPT !.vertical_speed = Max(1, @ + vertical_speed_incr[1])]
    ELSE IF rotation_every_incr # None
    THEN LET rotation_every ==
                 Max(1, pizza.rotation_every + rotation_every_incr[1])
         IN  [pizza EXCEPT !.rotation_every = rotation_every,
                           !.n_updates = rotation_every - 1]
    ELSE LET y == pizza.y + pizza.vertical_speed
             \* rect.top > screen_height: rect.bottom = 0
             top == IF y > pr_screen_height THEN 0 - pr_diameter ELSE y
             n_updates == pizza.n_updates + 1
         IN  IF n_updates = pizza.rotation_every
             THEN [pizza EXCEPT !.y = top, !.n_updates = 0,
                                !.orientation = (@ + 1) % 4]
             ELSE [pizza EXCEPT !.y = top, !.n_updates = n_updates]

\* Group.update(**kwargs): update of every sprite of the group
GroupUpdate(pizza_list, vertical_speed_incr, rotation_every_incr) ==
    [i \in 1..Len(pizza_list) |->
        PizzaUpdate(pizza_list[i], vertical_speed_incr, rotation_every_incr)]

\* the body of the loop of PizzaRain.process_events on one event
PRHandleEvent(self, event) ==
    LET toggled == IF event = "K_SPACE"
                   THEN [self EXCEPT !.is_running = ~@]
                   ELSE self
    IN  CASE event = "K_UP" ->
               [toggled EXCEPT !.pizza_list =
                   GroupUpdate(@, <<-pr_vertical_speed_incr>>, None)]
          [] event = "K_DOWN" ->
               [toggled EXCEPT !.pizza_list =
                   GroupUpdate(@, <<pr_vertical_speed_incr>>, None)]
          [] event = "K_RIGHT" ->
               [toggled EXCEPT !.pizza_list =
                   GroupUpdate(@, None, <<-pr_rotation_every_incr>>)]
          [] event = "K_LEFT" ->
               [toggled EXCEPT !.pizza_list =
                   GroupUpdate(@, None, <<pr_rotation_every_incr>>)]
          [] OTHER -> toggled

RECURSIVE PRHandle(_, _)
PRHandle(self, events) ==
    IF events = <<>> THEN self
    ELSE PRHandle(PRHandleEvent(self, Head(events)), Tail(events))

\* faulty variant: run_logic updates the pizzas whether the simulation runs or not
PRLogicAlways(self) ==
    [self EXCEPT !.pizza_list = GroupUpdate(@, None, None),
                 !.caption = IF self.is_running THEN "running" ELSE "paused"]

\* PizzaRain.run_logic
PRLogic(self) ==
    [self EXCEPT
        !.pizza_list = IF self.is_running THEN GroupUpdate(@, None, None) ELSE @,
        !.caption = IF self.is_running THEN "running" ELSE "paused"]

\* a new Pizza: the rect of the image has its top-left corner at (0, 0)
PRNewPizza(x, y) ==
    [x |-> x, y |-> y,
     vertical_speed |-> pr_vertical_speed,
     rotation_every |-> pr_rotation_every,
     n_updates |-> 0,
     orientation |-> 0]

\* pygame.sprite.spritecollide: the rects of two pizzas overlap
PRCollide(a, b) ==
    /\ a.x < b.x + pr_diameter /\ b.x < a.x + pr_diameter
    /\ a.y < b.y + pr_diameter /\ b.y < a.y + pr_diameter

\* the places a new pizza ends at in __init__: (0, 0) when it collides with
\* no pizza of the group there, else the first rect around a random centre
\* that collides with none
PRPlaces(pizza_list) ==
    LET clear(p) == \A i \in 1..Len(pizza_list) : ~PRCollide(p, pizza_list[i])
    IN  IF clear(PRNewPizza(0, 0)) THEN {PRNewPizza(0, 0)}
        ELSE {p \in {PRNewPizza(cx - pr_diameter \div 2, cy - pr_diameter \div 2) :
                        cx \in 0..(pr_screen_width - 1),
                        cy \in 0..(pr_screen_height - 1)} : clear(p)}

\* the groups of n pizzas __init__ can build
RECURSIVE PRPizzaLists(_)
PRPizzaLists(n) ==
    IF n = 0 THEN {<<>>}
    ELSE UNION {{Append(list, p) : p \in PRPlaces(list)} :
                   list \in PRPizzaLists(n - 1)}

PRInitObjects ==
    {[is_running |-> TRUE, caption |-> "running", pizza_list |-> list] :
        list \in PRPizzaLists(pr_number_of_pizzas)}

PRInit ==
    /\ program = "pizza_rain"
    /\ pc = "process_events"
    /\ running = TRUE
    /\ event_queue = <<>>
    /\ quit_seen = FALSE
    /\ unhandled = FALSE
    /\ sand_clock = "None"
    /\ solar_system = "None"
    /\ shooting_star = "None"
    /\ pizza_rain \in PRInitObjects
    /\ colorful_flooding = "None"
    /\ wrecking_ball = "None"
    /\ rebound_collisions = "None"

PROthers ==
    UNCHANGED <<program, colorful_flooding, wrecking_ball, rebound_collisions,
                sand_clock, solar_system, shooting_star>>

PRPostEvent == PostEvent(PREvents, MaxKeys) /\ UNCHANGED pizza_rain /\ PROthers

PRProcessEvents ==
    /\ pc = "process_events"
    /\ pizza_rain' = PRHandle(pizza_rain, Handled(event_queue))
    /\ \A i \in 1..Len(pizza_rain'.pizza_list) :
          /\ pizza_rain'.pizza_list[i].vertical_speed <= MaxSpeed
          /\ pizza_rain'.pizza_list[i].rotation_every <= MaxRotation
    /\ running' = ~HasQuit(event_queue)
    /\ quit_seen' = (quit_seen \/ HasQuit(event_queue))
    /\ unhandled' = (Unhandled(event_queue) # <<>>)
    /\ event_queue' = <<>>
    /\ pc' = "run_logic"
    /\ PROthers

PRRunLogic ==
    /\ pc = "run_logic"
    /\ pizza_rain' = PRLogic(pizza_rain)
    /\ pc' = "draw"
    /\ UNCHANGED <<running, event_queue, quit_seen, unhandled>>
    /\ PROthers

PRDraw == Draw /\ UNCHANGED pizza_rain /\ PROthers

PRClockTick == ClockTick /\ UNCHANGED pizza_rain /\ PROthers

PRNext ==
    \/ PRPostEvent
    \/ PRProcessEvents
    \/ PRRunLogic
    \/ PRDraw
    \/ PRClockTick

SpecPR == PRInit /\ [][PRNext]_vars

(***************************************************************************)
(* Claims on PizzaRain                                                     *)
(***************************************************************************)
PRPizzas == 1..Len(pizza_rain.pizza_list)

PRMoved(pizza, after) ==
    LET y == pizza.y + pizza.vertical_speed
    IN  /\ after.x = pizza.x
        /\ IF y > pr_screen_height THEN after.y + pr_diameter = 0 ELSE after.y = y
        /\ <<after.y, after.orientation, after.n_updates>>
              # <<pizza.y, pizza.orientation, pizza.n_updates>>

\* C10: each Space KEYDOWN handled toggles _is_running; a run_logic while
\* _is_running is False leaves every pizza as it is; the run_logic after a
\* Space KEYDOWN that resumes the simulation moves every pizza again.
C10_SpacePausesAndResumes ==
    [][/\ (pc = "process_events" /\ pc' = "run_logic" =>
            pizza_rain'.is_running =
                IF CountOf(Handled(event_queue), "K_SPACE") % 2 = 1
                THEN ~pizza_rain.is_running
                ELSE pizza_rain.is_running)
       /\ (pc = "run_logic" /\ pc' = "draw" /\ ~pizza_rain.is_running =>
            /\ pizza_rain'.pizza_list = pizza_rain.pizza_list
            /\ ~pizza_rain'.is_running)
       /\ (pc = "run_logic" /\ pc' = "draw" /\ pizza_rain.is_running =>
            /\ pizza_rain'.is_running
            /\ \A i \in PRPizzas :
                  PRMoved(pizza_rain.pizza_list[i], pizza_rain'.pizza_list[i]))]_vars

\* C10 witness: a frame ran paused (the caption says so) and a Space KEYDOWN
\* has resumed the simulation for the run_logic that follows
C10_Witness ==
    /\ pc = "run_logic"
    /\ pizza_rain.caption = "paused"
    /\ pizza_rain.is_running
    /\ event_queue = <<>>

\* rect.top and rect.bottom of a pizza (the rect stays diameter x diameter:
\* the rotation replaces the image only)
PRTop(pizza) == pizza.y

PRBottom(pizza) == pizza.y + pr_diameter

\* C11: after every position update of a pizza its rect.top is at most
\* screen_height; an update that moves rect.top past screen_height ends with
\* rect.bottom = 0 and x unchanged (the pizza reappears at the top).
C11_ReappearsAtTheTop ==
    [][pc = "run_logic" /\ pc' = "draw" /\ pizza_rain.is_running =>
        \A i \in PRPizzas :
            LET pizza == pizza_rain.pizza_list[i]
                after == pizza_rain'.pizza_list[i]
            IN  /\ PRTop(after) <= pr_screen_height
                /\ (PRTop(pizza) + pizza.vertical_speed > pr_screen_height
                    => /\ PRBottom(after) = 0
                       /\ after.x = pizza.x)]_vars

\* C11 witness: a running frame has just put a pizza back at the top (no
\* pizza starts with rect.bottom = 0: its centre is on the screen)
C11_Witness ==
    /\ pc = "draw"
    /\ pizza_rain.is_running
    /\ \E i \in PRPizzas : PRBottom(pizza_rain.pizza_list[i]) = 0

(***************************************************************************)
(* SandClock.  A grain is its vertical position inside the structure; the  *)
(* horizontal one is read by nothing but draw and the flip keeps it.       *)
(***************************************************************************)
\* config.yml of sand_clock
sc_screen_height == 4

sc_structure_height == 4

sc_n_sand_grains == 1

SCEvents == {"QUIT", "K_SPACE", "K_r", "KEYUP"}

\* SandClockStructure.center[1], and the y of its top and bottom segments
sc_center_y == sc_screen_height \div 2

sc_top == sc_center_y - sc_structure_height \div 2

sc_bottom == sc_center_y + sc_structure_height \div 2

\* init_grain_random_position: a place within the upper bulb
SCGrainPositions == {y \in sc_top..sc_center_y : y < sc_center_y}

\* the lists of grains __init__ can build
RECURSIVE SCGrainLists(_)
SCGrainLists(n) ==
    IF n = 0 THEN {<<>>}
    ELSE {Append(list, y) : list \in SCGrainLists(n - 1), y \in SCGrainPositions}

\* SandClock.__init__
SCInitObjects ==
    {[sand_grains_list |-> list, tip_over |-> FALSE, reset |-> FALSE] :
        list \in SCGrainLists(sc_n_sand_grains)}

\* Space.step on the grains: each falls by 0..MaxFall, not below the bottom
\* segment of the structure
RECURSIVE SCStepOutcomes(_)
SCStepOutcomes(grains) ==
    IF grains = <<>> THEN {<<>>}
    ELSE {<<Min(Head(grains) + d, Max(Head(grains), sc_bottom))>> \o rest :
             d \in 0..MaxFall, rest \in SCStepOutcomes(Tail(grains))}

\* SandClock._flip_vertically
flip_vertically(grains) ==
    [i \in 1..Len(grains) |-> 2 * sc_center_y - grains[i]]

\* the body of the loop of SandClock.process_events on one event
SCHandleEvent(self, event) ==
    CASE event = "K_SPACE" -> [self EXCEPT !.tip_over = TRUE]
      [] event = "K_r" -> [self EXCEPT !.reset = TRUE]
      [] OTHER -> self

RECURSIVE SCHandle(_, _)
SCHandle(self, events) ==
    IF events = <<>> THEN self
    ELSE SCHandle(SCHandleEvent(self, Head(events)), Tail(events))

\* SandClock.run_logic after space.step: the outcomes of the flip and of the
\* restart (self.__init__() builds the object anew)
SCLogic(self) ==
    LET flipped == IF self.tip_over
                   THEN [self EXCEPT !.tip_over = FALSE,
                            !.sand_grains_list = flip_vertically(@)]
                   ELSE self
    IN  IF flipped.reset THEN SCInitObjects ELSE {flipped}

SCInit ==
    /\ program = "sand_clock"
    /\ pc = "process_events"
    /\ running = TRUE
    /\ event_queue = <<>>
    /\ quit_seen = FALSE
    /\ unhandled = FALSE
    /\ sand_clock \in SCInitObjects
    /\ colorful_flooding = "None"
    /\ wrecking_ball = "None"
    /\ rebound_collisions = "None"
    /\ pizza_rain = "None"
    /\ solar_system = "None"
    /\ shooting_star = "None"

SCOthers ==
    UNCHANGED <<program, colorful_flooding, wrecking_ball, rebound_collisions,
                pizza_rain, solar_system, shooting_star>>

SCPostEvent ==
    /\ program = "sand_clock"
    /\ PostEvent(SCEvents, MaxBatch)
    /\ UNCHANGED sand_clock
    /\ SCOthers

SCProcessEvents ==
    /\ program = "sand_clock"
    /\ pc = "process_events"
    /\ sand_clock' = SCHandle(sand_clock, Handled(event_queue))
    /\ running' = ~HasQuit(event_queue)
    /\ quit_seen' = (quit_seen \/ HasQuit(event_queue))
    /\ unhandled' = (Unhandled(event_queue) # <<>>)
    /\ event_queue' = <<>>
    /\ pc' = "run_logic"
    /\ SCOthers

SCRunLogic ==
    /\ program = "sand_clock"
    /\ pc = "run_logic"
    /\ \E grains \in SCStepOutcomes(sand_clock.sand_grains_list) :
          sand_clock' \in SCLogic([sand_clock EXCEPT !.sand_grains_list = grains])
    /\ pc' = "draw"
    /\ UNCHANGED <<running, event_queue, quit_seen, unhandled>>
    /\ SCOthers

SCDraw == program = "sand_clock" /\ Draw /\ UNCHANGED sand_clock /\ SCOthers

SCClockTick ==
    program = "sand_clock" /\ ClockTick /\ UNCHANGED sand_clock /\ SCOthers

(***************************************************************************)
(* SolarSystem.  Planet.update turns the planet around the centre of the   *)
(* screen by the angle atan(translation_step) and scales it back onto its  *)
(* orbit: a planet is its orbit, its direction and the number of turns.    *)
(***************************************************************************)
\* config.yml of solar_system
ss_screen_height == 8

ss_sun_radius == 1

ss_intra_planets_distance == 1

ss_planets_radius == <<1, 1>>

ss_n_planets == Len(ss_planets_radius)

\* most updates a planet is followed through
MaxOrbit == 3

SSEvents == {"QUIT", "KEYUP"}

\* the y of the centre of planet i in SolarSystem.__init__
RECURSIVE ss_next_y(_)
ss_next_y(i) ==
    IF i = 0
    THEN ss_screen_height \div 2 - (ss_sun_radius + ss_intra_planets_distance)
    ELSE ss_next_y(i - 1) - ss_planets_radius[i]
         - (IF i > 1 THEN ss_planets_radius[i - 1] + ss_intra_planets_distance
            ELSE 0)

\* Planet.__init__: original_vector_norm of a planet right above the centre
SSNewPlanet(i, clockwise_translation) ==
    [original_vector_norm |-> ss_screen_height \div 2 - ss_next_y(i),
     clockwise_translation |-> clockwise_translation,
     n_updates |-> 0]

\* SolarSystem.__init__
SSInitObjects ==
    {[planets_list |-> [i \in 1..ss_n_planets |-> SSNewPlanet(i, clockwise[i])]] :
        clockwise \in [1..ss_n_planets -> BOOLEAN]}

\* Planet.update
SSPlanetUpdate(planet) == [planet EXCEPT !.n_updates = @ + 1]

\* SolarSystem.run_logic
SSLogic(self) ==
    [self EXCEPT !.planets_list =
        [i \in 1..Len(@) |-> SSPlanetUpdate(@[i])]]

SSInit ==
    /\ program = "solar_system"
    /\ pc = "process_events"
    /\ running = TRUE
    /\ event_queue = <<>>
    /\ quit_seen = FALSE
    /\ unhandled = FALSE
    /\ solar_system \in SSInitObjects
    /\ colorful_flooding = "None"
    /\ wrecking_ball = "None"
    /\ rebound_collisions = "None"
    /\ pizza_rain = "None"
    /\ sand_clock = "None"
    /\ shooting_star = "None"

SSOthers ==
    UNCHANGED <<program, colorful_flooding, wrecking_ball, rebound_collisions,
                pizza_rain, sand_clock, shooting_star>>

SSPostEvent ==
    /\ program = "solar_system"
    /\ PostEvent(SSEvents, MaxBatch)
    /\ UNCHANGED solar_system
    /\ SSOthers

\* SolarSystem.process_events (a static method)
SSProcessEvents ==
    /\ program = "solar_system"
    /\ pc = "process_events"
    /\ running' = ~HasQuit(event_queue)
    /\ quit_seen' = (quit_seen \/ HasQuit(event_queue))
    /\ unhandled' = (Unhandled(event_queue) # <<>>)
    /\ event_queue' = <<>>
    /\ pc' = "run_logic"
    /\ UNCHANGED solar_system
    /\ SSOthers

SSRunLogic ==
    /\ program = "solar_system"
    /\ pc = "run_logic"
    /\ \A i \in 1..Len(solar_system.planets_list) :
          solar_system.planets_list[i].n_updates < MaxOrbit
    /\ solar_system' = SSLogic(solar_system)
    /\ pc' = "draw"
    /\ UNCHANGED <<running, event_queue, quit_seen, unhandled>>
    /\ SSOthers

SSDraw == program = "solar_system" /\ Draw /\ UNCHANGED solar_system /\ SSOthers

SSClockTick ==
    program = "solar_system" /\ ClockTick /\ UNCHANGED solar_system /\ SSOthers

(***************************************************************************)
(* ShootingStar.  The object is the flag of the mouse and spark_list; the  *)
(* pymunk space, from which no spark is ever removed, is read by nothing.  *)
(***************************************************************************)
\* config.yml of shooting_star
st_min_radius == 1

st_max_radius == 3

st_min_lifespan == 1

st_max_lifespan == 3

st_new_sparks_per_time_step == 1

STEvents == {"QUIT", "MOUSEBUTTONDOWN", "MOUSEBUTTONUP"}

\* Spark.__init__ with the random radius and lifespan of
\* _create_and_add_a_new_spark (random.randrange leaves the stop out)
STNewSparks ==
    {[radius |-> random_radius,
      init_radius |-> random_radius,
      lifespan |-> random_lifespan,
      time_steps_left |-> random_lifespan] :
        random_radius \in st_min_radius..(st_max_radius - 1),
        random_lifespan \in st_min_lifespan..(st_max_lifespan - 1)}

\* the spark lists after k more calls of _create_and_add_a_new_spark
RECURSIVE STCreateSparks(_, _)
STCreateSparks(spark_list, k) ==
    IF k = 0 THEN {spark_list}
    ELSE UNION {STCreateSparks(Append(spark_list, spark), k - 1) :
                   spark \in STNewSparks}

\* Spark.zero_radius: the spark after the call (it returns radius = 0)
zero_radius(spark) ==
    LET time_steps_left == spark.time_steps_left - 1
    IN  [spark EXCEPT
            !.time_steps_left = time_steps_left,
            !.radius = FloorDiv(spark.init_radius * time_steps_left,
                                spark.lifespan)]

\* 'for spark in self.spark_list: if spark.zero_radius(): remove(spark)', with
\* the list iterator at index i (1-based): a removal shifts the rest to the
\* left and the iterator goes on one further
RECURSIVE STRemoveLoop(_, _)
STRemoveLoop(spark_list, i) ==
    IF i > Len(spark_list) THEN spark_list
    ELSE LET spark == zero_radius(spark_list[i])
         IN  IF spark.radius = 0
             THEN STRemoveLoop(SubSeq(spark_list, 1, i - 1)
                                  \o SubSeq(spark_list, i + 1, Len(spark_list)),
                               i + 1)
             ELSE STRemoveLoop([spark_list EXCEPT ![i] = spark], i + 1)

\* the body of the loop of ShootingStar.process_events on one event
STHandleEvent(self, event) ==
    CASE event = "MOUSEBUTTONDOWN" ->
             [self EXCEPT !.is_mouse_still_pressed = TRUE]
      [] event = "MOUSEBUTTONUP" ->
             [self EXCEPT !.is_mouse_still_pressed = FALSE]
      [] OTHER -> self

RECURSIVE STHandle(_, _)
STHandle(self, events) ==
    IF events = <<>> THEN self
    ELSE STHandle(STHandleEvent(self, Head(events)), Tail(events))

\* ShootingStar.run_logic: the outcomes
STLogic(self) ==
    {[self EXCEPT !.spark_list = STRemoveLoop(created, 1)] :
        created \in IF self.is_mouse_still_pressed
                    THEN STCreateSparks(self.spark_list,
                                        st_new_sparks_per_time_step)
                    ELSE {self.spark_list}}

\* ShootingStar.__init__
STInitObject == [is_mouse_still_pressed |-> FALSE, spark_list |-> <<>>]

STInit ==
    /\ program = "shooting_star"
    /\ pc = "process_events"
    /\ running = TRUE
    /\ event_queue = <<>>
    /\ quit_seen = FALSE
    /\ unhandled = FALSE
    /\ shooting_star = STInitObject
    /\ colorful_flooding = "None"
    /\ wrecking_ball = "None"
    /\ rebound_collisions = "None"
    /\ pizza_rain = "None"
    /\ sand_clock = "None"
    /\ solar_system = "None"

STOthers ==
    UNCHANGED <<program, colorful_flooding, wrecking_ball, rebound_collisions,
                pizza_rain, sand_clock, solar_system>>

STPostEvent ==
    /\ program = "shooting_star"
    /\ PostEvent(STEvents, MaxBatch)
    /\ UNCHANGED shooting_star
    /\ STOthers

STProcessEvents ==
    /\ program = "shooting_star"
    /\ pc = "process_events"
    /\ shooting_star' = STHandle(shooting_star, Handled(event_queue))
    /\ running' = ~HasQuit(event_queue)
    /\ quit_seen' = (quit_seen \/ HasQuit(event_queue))
    /\ unhandled' = (Unhandled(event_queue) # <<>>)
    /\ event_queue' = <<>>
    /\ pc' = "run_logic"
    /\ STOthers

STRunLogic ==
    /\ program = "shooting_star"
    /\ pc = "run_logic"
    /\ shooting_star' \in STLogic(shooting_star)
    /\ pc' = "draw"
    /\ UNCHANGED <<running, event_queue, quit_seen, unhandled>>
    /\ STOthers

STDraw == program = "shooting_star" /\ Draw /\ UNCHANGED shooting_star /\ STOthers

STClockTick ==
    program = "shooting_star" /\ ClockTick /\ UNCHANGED shooting_star /\ STOthers

(***************************************************************************)
(* The three programs above, one per run                                   *)
(***************************************************************************)
LoopInit == SCInit \/ SSInit \/ STInit

LoopNext ==
    \/ SCPostEvent
    \/ SCProcessEvents
    \/ SCRunLogic
    \/ SCDraw
    \/ SCClockTick
    \/ SSPostEvent
    \/ SSProcessEvents
    \/ SSRunLogic
    \/ SSDraw
    \/ SSClockTick
    \/ STPostEvent
    \/ STProcessEvents
    \/ STRunLogic
    \/ STDraw
    \/ STClockTick

SpecLoop == LoopInit /\ [][LoopNext]_vars

(***************************************************************************)
(* Claim on the frame loop of the programs                                 *)
(***************************************************************************)
\* the index of the first QUIT of a batch, or its length plus one
FirstQuit(events) ==
    CHOOSE i \in 1..(Len(events) + 1) :
        /\ i = Len(events) + 1 \/ events[i] = "QUIT"
        /\ \A j \in 1..(i - 1) : events[j] # "QUIT"

BeforeQuit(events) == SubSeq(events, 1, FirstQuit(events) - 1)

\* the kinds of the events in a sequence
KindsOf(events) == {events[i] : i \in 1..Len(events)}

\* the last event of a sequence that is of one of the kinds, else "None"
RECURSIVE LastOf(_, _)
LastOf(events, kinds) ==
    IF events = <<>> THEN "None"
    ELSE IF events[Len(events)] \in kinds THEN events[Len(events)]
    ELSE LastOf(SubSeq(events, 1, Len(events) - 1), kinds)

\* what process_events has done to the object of the program when it has
\* handled the events 'before' and no other
ProcessedOnly(before) ==
    CASE program = "colorful_flooding" ->
             colorful_flooding' =
                 [colorful_flooding EXCEPT !.remove_screen_bottom =
                     @ \/ "K_SPACE" \in KindsOf(before)]
      [] program = "wrecking_ball" -> wrecking_ball' = wrecking_ball
      [] program = "rebound_collisions" ->
             /\ rebound_collisions'.clicks =
                    rebound_collisions.clicks
                    + CountOf(before, "MOUSEBUTTONDOWN")
             /\ rebound_collisions'.circle_list = rebound_collisions.circle_list
             /\ "MOUSEBUTTONDOWN" \notin KindsOf(before)
                => rebound_collisions' = rebound_collisions
      [] program = "pizza_rain" -> pizza_rain' = PRHandle(pizza_rain, before)
      [] program = "sand_clock" ->
             sand_clock' =
                 [sand_clock EXCEPT
                     !.tip_over = @ \/ "K_SPACE" \in KindsOf(before),
                     !.reset = @ \/ "K_r" \in KindsOf(before)]
      [] program = "solar_system" -> solar_system' = solar_system
      [] program = "shooting_star" ->
             LET last == LastOf(before, {"MOUSEBUTTONDOWN", "MOUSEBUTTONUP"})
             IN  shooting_star' =
                     [shooting_star EXCEPT !.is_mouse_still_pressed =
                         IF last = "None" THEN @ ELSE last = "MOUSEBUTTONDOWN"]

\* the objects of the programs
objects ==
    <<colorful_flooding, wrecking_ball, rebound_collisions, pizza_rain,
      sand_clock, solar_system, shooting_star>>

\* C12: an iteration of the loop is process_events, run_logic, draw,
\* clock_tick in this order; a process_events that meets a QUIT returns False
\* and has handled the events before it and none of those after it; 'running'
\* changes nowhere else, so that the iteration goes on with one run_logic, one
\* draw and one clock_tick, after which the loop is left and nothing runs.
C12_FrameLoop ==
    [][/\ pc = "process_events" =>
            \/ /\ pc' = "process_events"
               /\ running' = running
               /\ objects' = objects
            \/ /\ pc' = "run_logic"
               /\ event_queue' = <<>>
               /\ HasQuit(event_queue) => running' = FALSE
               /\ ProcessedOnly(BeforeQuit(event_queue))
       /\ pc = "run_logic" => pc' = "draw" /\ running' = running
       /\ pc = "draw" => pc' = "clock_tick" /\ running' = running
       /\ pc = "clock_tick" =>
            /\ running' = running
            /\ pc' = IF running THEN "process_events" ELSE "done"
       /\ pc \in {"process_events", "run_logic", "draw", "clock_tick"}]_vars

\* C12 witness: the loop has been left after a QUIT that had other events
\* behind it in its batch
C12_Witness ==
    /\ pc = "done"
    /\ quit_seen
    /\ unhandled

====
